---- MODULE Spec2Model ----
(***************************************************************************)
(* Risk engine of src/dashboard.py: the portfolio table, the trade_history *)
(* ledger, the account_config equity cell and the regime selection of the  *)
(* sidebar.  Prices and R values are REAL columns / Python floats; they    *)
(* are modelled as exact rationals <<n, d>> in lowest terms, so rounding   *)
(* of IEEE doubles is outside the model.                                   *)
(***************************************************************************)
EXTENDS Integers, Sequences, FiniteSets, TLC

VARIABLES portfolio, trade_history, total_equity, today, adds,
          basis, audit,
          regime_choice, regime, radio_index, suggested_regime,
          checklist_count,
          conn, current_tor, args, result, schema

vars == <<portfolio, trade_history, total_equity, today, adds,
          basis, audit,
          regime_choice, regime, radio_index, suggested_regime,
          checklist_count,
          conn, current_tor, args, result, schema>>

dbVars == <<portfolio, trade_history, total_equity>>
\* history kept for the statements about the engine, never read by it:
\* adds, the number of add_position calls; basis, per open position the
\* add_position call that set its initial_stop_loss; audit, per ledger row
\* what the exit that wrote it found and did
histVars == <<basis, audit>>
regimeVars == <<regime_choice, regime, radio_index, suggested_regime,
                checklist_count>>
\* conn, the open sqlite3 connection of an exit in progress with its
\* uncommitted writes; current_tor, the TOR computed by the last run of the
\* script; args, the inputs of the function under evaluation, and result,
\* <<>> before the call and <<outcome>> after it; schema, the columns of
\* each table of the database file, which only init_db changes
viewVars == <<conn, current_tor, args, result, schema>>

----------------------------------------------------------------------------
(* Bounds of the model *)

\* entry, stop and exit prices typed by the operator range over 1..MaxPrice
MaxPrice == 2
\* quantities passed to add_position range over -1..MaxQty
MaxQty == 2
\* quantities passed to the exit operations range over 1..MaxExitQty
MaxExitQty == 2
\* the trade ledger holds at most MaxLedger rows
MaxLedger == 2
\* the calendar runs over days 1..MaxDay
MaxDay == 2
\* add_position is called at most MaxAdds times
MaxAdds == 2

Tickers == {"A"}
Prices == 1..MaxPrice
\* the add form's Quantity input has no minimum (dashboard.py:979)
AddQtys == (0 - 1)..MaxQty
ExitQtys == 1..MaxExitQty
Days == 1..MaxDay

\* SQL NULL in a REAL column
NULL == <<>>
\* Python's None where the other values are strings
None == "None"

----------------------------------------------------------------------------
(* Exact rational arithmetic standing in for Python float arithmetic *)

Abs(n) == IF n < 0 THEN 0 - n ELSE n

RECURSIVE GCD(_, _)
GCD(a, b) == IF b = 0 THEN a ELSE GCD(b, a % b)

\* n/d in lowest terms with a positive denominator (d # 0)
Norm(n, d) ==
    LET g == GCD(Abs(n), Abs(d))
        s == IF d < 0 THEN 0 - 1 ELSE 1
    IN  <<(s * n) \div g, Abs(d) \div g>>

R(n) == <<n, 1>>
RAdd(x, y) == Norm(x[1] * y[2] + y[1] * x[2], x[2] * y[2])
RSub(x, y) == Norm(x[1] * y[2] - y[1] * x[2], x[2] * y[2])
RMul(x, y) == Norm(x[1] * y[1], x[2] * y[2])
RDiv(x, y) == Norm(x[1] * y[2], x[2] * y[1])
RAbs(x) == <<Abs(x[1]), x[2]>>
RLt(x, y) == x[1] * y[2] < y[1] * x[2]
RLe(x, y) == x[1] * y[2] <= y[1] * x[2]
RZero == R(0)

----------------------------------------------------------------------------
(* Stored rows *)

\* a portfolio row (sector and breakdown_low play no part in the engine)
PositionRow(entry_price, stop_loss, quantity, entry_date, initial_stop_loss) ==
    [entry_price |-> entry_price, stop_loss |-> stop_loss,
     quantity |-> quantity, entry_date |-> entry_date,
     initial_stop_loss |-> initial_stop_loss]

\* f"{ticker}_{entry_date}": the date has a fixed width, so the text
\* determines the pair and the pair the text
TradeId(ticker, entry_date) == <<ticker, entry_date>>

\* a trade_history row; partial is TRUE when the stored ticker text carries
\* the "(P)" suffix
LedgerRow(ticker, partial, entry_date, exit_date, entry_price, exit_price, r_multiple, trade_id, exit_qty) ==
    [ticker |-> ticker, partial |-> partial, entry_date |-> entry_date,
     exit_date |-> exit_date, entry_price |-> entry_price,
     exit_price |-> exit_price, r_multiple |-> r_multiple,
     trade_id |-> trade_id, exit_qty |-> exit_qty]

\* the add_position call that froze the risk basis of a position: its
\* number, its stop, the initial_stop_loss it replaced (<<>> when it
\* inserted the row) and the quantity held right after it
Basis(call, stop, prev, quantity) ==
    [call |-> call, stop |-> stop, prev |-> prev, quantity |-> quantity]

\* an exit: the quantity, stop_loss and initial_stop_loss of the row it
\* fetched, and the call and quantity of the basis then in force
Audit(row, frozen) ==
    [held |-> row.quantity, stop_loss |-> row.stop_loss,
     initial_stop_loss |-> row.initial_stop_loss,
     call |-> frozen.call, frozen_qty |-> frozen.quantity]

SeedEquity == 10000

\* the columns of the CREATE TABLE statements
CreatedColumns ==
    [portfolio |-> {"ticker", "entry_price", "stop_loss", "quantity",
                    "sector", "entry_date", "breakdown_low",
                    "initial_stop_loss"},
     trade_history |-> {"id", "ticker", "entry_date", "exit_date",
                        "entry_price", "exit_price", "r_multiple"},
     account_config |-> {"id", "total_equity", "last_updated"}]

\* the columns of the ALTER TABLE ... ADD COLUMN statements, in order
AddedColumns ==
    <<<<"portfolio", "breakdown_low">>, <<"portfolio", "initial_stop_loss">>,
      <<"trade_history", "trade_id">>, <<"trade_history", "exit_qty">>>>

\* the tables once init_db has run
InitialisedSchema ==
    [CreatedColumns EXCEPT !.trade_history = @ \cup {"trade_id", "exit_qty"}]

----------------------------------------------------------------------------
(* The tables.  portfolio maps each ticker that has a row (ticker is the   *)
(* PRIMARY KEY) to that row.                                              *)

HasRow(ticker) == ticker \in DOMAIN portfolio

Upsert(table, ticker, row) ==
    [t \in DOMAIN table \cup {ticker} |-> IF t = ticker THEN row ELSE table[t]]

Delete(table, ticker) ==
    [t \in DOMAIN table \ {ticker} |-> table[t]]

\* c.fetchone() of a SELECT ... WHERE ticker = ?: the row or None
fetchone(ticker) == IF HasRow(ticker) THEN <<portfolio[ticker]>> ELSE <<>>

----------------------------------------------------------------------------
(* add_position *)

wac_price(old_price, old_qty, entry, qty) ==
    RDiv(RAdd(RMul(old_price, R(old_qty)), RMul(entry, R(qty))),
         R(old_qty + qty))

\* a variant of the merge that dates the position by its latest fill
MergedPosition_Redated(existing_pos, entry, stop, qty) ==
    PositionRow(wac_price(existing_pos.entry_price, existing_pos.quantity,
                          entry, qty),
                stop,
                existing_pos.quantity + qty,
                today,
                stop)

\* the UPDATE of the merge branch
MergedPosition(existing_pos, entry, stop, qty) ==
    PositionRow(wac_price(existing_pos.entry_price, existing_pos.quantity,
                          entry, qty),
                stop,
                existing_pos.quantity + qty,
                existing_pos.entry_date,
                stop)

\* the INSERT of the new-position branch
NewPosition(entry, stop, qty, date) ==
    PositionRow(entry, stop, qty, date, stop)

add_position(ticker, entry, stop, qty) ==
    LET existing_pos == fetchone(ticker) IN
    /\ IF existing_pos # <<>>
       THEN IF existing_pos[1].quantity + qty = 0
            THEN \* ZeroDivisionError, caught: nothing is committed
                 /\ UNCHANGED <<portfolio, basis>>
            ELSE /\ portfolio' = Upsert(portfolio, ticker,
                                    MergedPosition(existing_pos[1], entry,
                                                   stop, qty))
                 /\ basis' = Upsert(basis, ticker,
                        Basis(adds + 1, stop,
                              <<existing_pos[1].initial_stop_loss>>,
                              existing_pos[1].quantity + qty))
       ELSE /\ portfolio' = Upsert(portfolio, ticker,
                                   NewPosition(entry, stop, qty, today))
            /\ basis' = Upsert(basis, ticker,
                   Basis(adds + 1, stop, <<>>, qty))
    /\ adds < MaxAdds
    /\ adds' = adds + 1
    /\ UNCHANGED <<trade_history, total_equity, today, audit>>
    /\ UNCHANGED regimeVars

----------------------------------------------------------------------------
(* close_position *)

\* bookkeeping of an exit from row
Record(ticker, row) ==
    /\ audit' = Append(audit, Audit(row, basis[ticker]))
    /\ basis' = [t \in DOMAIN portfolio' |-> basis[t]]

\* a variant that measures risk against the live stop
Fallback_CurrentStop(init_stop, stop_p) == stop_p

\* "if init_stop is None: init_stop = stop_p"
Fallback(init_stop, stop_p) == IF init_stop = NULL THEN stop_p ELSE init_stop

\* "if qty_to_close > current_qty: qty_to_close = current_qty"
ClampToHeld(qty_to_close, current_qty) ==
    IF qty_to_close > current_qty THEN current_qty ELSE qty_to_close

\* r_unit = abs(entry_p - init_stop);
\* r_multiple = (exit_price - entry_p) / r_unit if r_unit != 0 else 0
RMultiple(exit_price, entry_p, init_stop) ==
    LET r_unit == RAbs(RSub(entry_p, init_stop)) IN
    IF r_unit # RZero THEN RDiv(RSub(exit_price, entry_p), r_unit) ELSE RZero

\* a variant that credits the proceeds of the exit
PnlDollars_Proceeds(exit_price, entry_p, qty) ==
    RMul(exit_price, R(qty))

\* pnl_dollars = (exit_price - entry_p) * qty
PnlDollars(exit_price, entry_p, qty) ==
    RMul(RSub(exit_price, entry_p), R(qty))

\* the row of the trade_history INSERT of close_position
CloseLedgerRow(ticker, row, exit_price, qty) ==
    LedgerRow(ticker, FALSE, row.entry_date, today, row.entry_price,
              exit_price,
              RMultiple(exit_price, row.entry_price,
                        Fallback(row.initial_stop_loss, row.stop_loss)),
              TradeId(ticker, row.entry_date), qty)

\* the portfolio after an exit of qty from a row holding current_qty
\* (close_position: remaining_qty > 0 updates, otherwise deletes)
AfterClose(table, ticker, current_qty, qty) ==
    IF current_qty - qty > 0
    THEN [table EXCEPT ![ticker].quantity = current_qty - qty]
    ELSE Delete(table, ticker)

close_position(ticker, exit_price, qty_to_close) ==
    LET row_data == fetchone(ticker) IN
    /\ IF row_data # <<>>
       THEN LET row == row_data[1]
                qty == ClampToHeld(qty_to_close, row.quantity)
            IN  /\ Len(trade_history) < MaxLedger
                /\ trade_history' = Append(trade_history,
                       CloseLedgerRow(ticker, row, exit_price, qty))
                /\ total_equity' = RAdd(total_equity,
                       PnlDollars(exit_price, row.entry_price, qty))
                /\ portfolio' = AfterClose(portfolio, ticker, row.quantity, qty)
                /\ Record(ticker, row)
       ELSE /\ UNCHANGED <<dbVars, histVars>>
    /\ UNCHANGED <<today, adds>>
    /\ UNCHANGED regimeVars

----------------------------------------------------------------------------
(* process_partial_exit *)

\* a variant that measures the risk unit with its sign
RealizedR_Signed(exit_px, entry_px, calc_stop) ==
    LET r_unit_fixed == RSub(entry_px, calc_stop) IN
    IF RLt(RZero, r_unit_fixed)
    THEN RDiv(RSub(exit_px, entry_px), r_unit_fixed)
    ELSE RZero

\* r_unit_fixed = abs(entry_px - calc_stop); realized_r is the quotient
\* when r_unit_fixed > 0 and 0 otherwise
RealizedR(exit_px, entry_px, calc_stop) ==
    LET r_unit_fixed == RAbs(RSub(entry_px, calc_stop)) IN
    IF RLt(RZero, r_unit_fixed)
    THEN RDiv(RSub(exit_px, entry_px), r_unit_fixed)
    ELSE RZero

\* the row of the trade_history INSERT of process_partial_exit
PartialLedgerRow(ticker, row, exit_qty, exit_px, entry_px) ==
    LedgerRow(ticker, TRUE, row.entry_date, today, entry_px, exit_px,
              RealizedR(exit_px, entry_px,
                        Fallback(row.initial_stop_loss, row.stop_loss)),
              TradeId(ticker, row.entry_date), exit_qty)

\* "UPDATE portfolio SET quantity = quantity - ?", then the DELETE when the
\* remaining quantity is <= 0
AfterPartial(table, ticker, exit_qty) ==
    LET remaining_qty == table[ticker].quantity - exit_qty IN
    IF remaining_qty <= 0
    THEN Delete(table, ticker)
    ELSE [table EXCEPT ![ticker].quantity = remaining_qty]

\* the entry_px the caller passes: row['entry_price'] of the row it shows
EntryPxArgs(ticker) ==
    IF HasRow(ticker) THEN {portfolio[ticker].entry_price}
    ELSE {R(p) : p \in Prices}

\* a variant that commits the fallback branch of a missing row
process_partial_exit_CommitsFallback(ticker, exit_qty, exit_px, entry_px) ==
    LET row == fetchone(ticker) IN
    /\ Len(trade_history) < MaxLedger
    /\ IF row # <<>>
       THEN /\ trade_history' = Append(trade_history,
                   PartialLedgerRow(ticker, row[1], exit_qty, exit_px,
                                    entry_px))
            /\ portfolio' = AfterPartial(portfolio, ticker, exit_qty)
            /\ Record(ticker, row[1])
       ELSE /\ trade_history' = Append(trade_history,
                   LedgerRow(ticker, TRUE, today, today, entry_px, exit_px,
                             RZero, TradeId(ticker, today), exit_qty))
            /\ UNCHANGED <<portfolio, histVars>>
    /\ total_equity' = RAdd(total_equity,
           PnlDollars(exit_px, entry_px, exit_qty))
    /\ UNCHANGED <<today, adds>>
    /\ UNCHANGED regimeVars

process_partial_exit(ticker, exit_qty, exit_px, entry_px) ==
    LET row == fetchone(ticker) IN
    /\ IF row # <<>>
       THEN /\ Len(trade_history) < MaxLedger
            /\ trade_history' = Append(trade_history,
                   PartialLedgerRow(ticker, row[1], exit_qty, exit_px,
                                    entry_px))
            /\ total_equity' = RAdd(total_equity,
                   PnlDollars(exit_px, entry_px, exit_qty))
            /\ portfolio' = AfterPartial(portfolio, ticker, exit_qty)
            /\ Record(ticker, row[1])
       ELSE \* "remaining_qty = c.fetchone()[0]" raises TypeError on None
            \* before conn.commit(): the INSERT and the equity UPDATE of
            \* this connection are rolled back
            /\ UNCHANGED <<dbVars, histVars>>
    /\ UNCHANGED <<today, adds>>
    /\ UNCHANGED regimeVars

----------------------------------------------------------------------------
(* update_stop_loss, delete_position and the calendar *)

\* a variant that moves the frozen stop along with the live one
WithStop_MovesInitial(row, new_stop_price) ==
    [row EXCEPT !.stop_loss = new_stop_price,
                !.initial_stop_loss = new_stop_price]

\* "UPDATE portfolio SET stop_loss = ? WHERE ticker = ?"
WithStop(row, new_stop_price) == [row EXCEPT !.stop_loss = new_stop_price]

\* a variant whose UPDATE has no WHERE clause
update_stop_loss_EveryRow(ticker, new_stop_price) ==
    /\ portfolio' = [t \in DOMAIN portfolio |->
                        WithStop(portfolio[t], new_stop_price)]
    /\ UNCHANGED <<trade_history, total_equity, today, adds, histVars>>
    /\ UNCHANGED regimeVars

update_stop_loss(ticker, new_stop_price) ==
    /\ portfolio' = IF HasRow(ticker)
                    THEN [portfolio EXCEPT ![ticker] =
                            WithStop(portfolio[ticker], new_stop_price)]
                    ELSE portfolio
    /\ UNCHANGED <<trade_history, total_equity, today, adds, histVars>>
    /\ UNCHANGED regimeVars

delete_position(ticker) ==
    /\ portfolio' = Delete(portfolio, ticker)
    /\ basis' = Delete(basis, ticker)
    /\ UNCHANGED <<trade_history, total_equity, today, adds, audit>>
    /\ UNCHANGED regimeVars

\* datetime.now() moves to the next calendar day
NextDay ==
    /\ today < MaxDay
    /\ today' = today + 1
    /\ UNCHANGED <<dbVars, adds, histVars>>
    /\ UNCHANGED regimeVars
    /\ UNCHANGED viewVars

----------------------------------------------------------------------------
(* The ledger engine *)

\* init_db on a fresh database: empty tables and the seeded account row
Init ==
    /\ portfolio = <<>>
    /\ trade_history = <<>>
    /\ total_equity = R(SeedEquity)
    /\ today = 1
    /\ adds = 0
    /\ basis = <<>>
    /\ audit = <<>>
    /\ regime_choice = None
    /\ regime = None
    /\ radio_index = 0
    /\ suggested_regime = None
    /\ checklist_count = 0
    /\ conn = NULL
    /\ current_tor = RZero
    /\ args = NULL
    /\ result = NULL
    /\ schema = InitialisedSchema

AddPosition ==
    \E ticker \in Tickers, entry \in Prices, stop \in Prices, qty \in AddQtys :
        add_position(ticker, R(entry), R(stop), qty) /\ UNCHANGED viewVars

ClosePosition ==
    \E ticker \in Tickers, exit_price \in Prices, qty_to_close \in ExitQtys :
        close_position(ticker, R(exit_price), qty_to_close)
            /\ UNCHANGED viewVars

ProcessPartialExit ==
    \E ticker \in Tickers, exit_qty \in ExitQtys, exit_px \in Prices :
        \E entry_px \in EntryPxArgs(ticker) :
            process_partial_exit(ticker, exit_qty, R(exit_px), entry_px)
                /\ UNCHANGED viewVars

UpdateStopLoss ==
    \E ticker \in Tickers, new_stop_price \in Prices :
        update_stop_loss(ticker, R(new_stop_price)) /\ UNCHANGED viewVars

DeletePosition ==
    \E ticker \in Tickers : delete_position(ticker) /\ UNCHANGED viewVars

Next ==
    \/ AddPosition
    \/ ClosePosition
    \/ ProcessPartialExit
    \/ UpdateStopLoss
    \/ DeletePosition
    \/ NextDay

Spec == Init /\ [][Next]_vars

----------------------------------------------------------------------------
(* Regime classifier and the sidebar's regime selection *)

\* get_recent_performance(limit): the possible results.  ORDER BY exit_date
\* DESC LIMIT leaves the choice among rows of equal exit_date to SQLite.
RecentRows(limit) ==
    {S \in SUBSET (1..Len(trade_history)) :
        /\ Cardinality(S) = limit
        /\ \A i \in S : \A j \in (1..Len(trade_history)) \ S :
              trade_history[i].exit_date >= trade_history[j].exit_date}

get_recent_performance(limit) ==
    IF Len(trade_history) < limit
    THEN {R(100)}
    ELSE {Norm(100 * Cardinality({i \in S :
                       RLt(RZero, trade_history[i].r_multiple)}), limit) :
          S \in RecentRows(limit)}

RecentLimit == 5
WinRateFloor == 20
ChecklistDowngrade == 3
ChecklistItems == 5

\* what yfinance returned: the history of both proxies, an empty frame, or
\* an exception
DataOutcomes == {"ok", "empty", "exception"}
\* the latest close against its 20-period average
Comparisons == {"above", "below", "equal"}

\* a variant without the win-rate layer
suggest_market_regime_NoFeedback(data, spy, rsp, checklist, recent_win_rate) ==
    IF data = "empty" THEN "UNKNOWN"
    ELSE IF data = "exception" THEN "ERROR"
    ELSE LET base_regime ==
                 IF spy = "above" /\ rsp = "above" THEN "GREEN"
                 ELSE IF spy = "below" /\ rsp = "below" THEN "RED"
                 ELSE "YELLOW"
         IN  IF checklist >= ChecklistDowngrade
             THEN IF base_regime = "GREEN" THEN "YELLOW" ELSE "RED"
             ELSE base_regime

suggest_market_regime(data, spy, rsp, checklist, recent_win_rate) ==
    IF data = "empty" THEN "UNKNOWN"
    ELSE IF data = "exception" THEN "ERROR"
    ELSE LET base_regime ==
                 IF spy = "above" /\ rsp = "above" THEN "GREEN"
                 ELSE IF spy = "below" /\ rsp = "below" THEN "RED"
                 ELSE "YELLOW"
         IN  IF RLt(recent_win_rate, R(WinRateFloor)) THEN "RED"
             ELSE IF checklist >= ChecklistDowngrade
                  THEN IF base_regime = "GREEN" THEN "YELLOW"
                       ELSE IF base_regime = "YELLOW" THEN "RED"
                       ELSE base_regime
                  ELSE base_regime

regime_options == <<"GREEN", "YELLOW", "RED">>

\* params.get(regime, params["GREEN"])
get_regime_params(r) ==
    IF r = "YELLOW" THEN [tor_limit |-> R(3), r_multiplier |-> <<1, 2>>]
    ELSE IF r = "RED" THEN [tor_limit |-> R(1), r_multiplier |-> <<1, 4>>]
    ELSE [tor_limit |-> R(5), r_multiplier |-> R(1)]

\* the index the radio is created with (0-based)
default_index(choice) ==
    IF choice = "GREEN" THEN 0
    ELSE IF choice = "YELLOW" THEN 1
    ELSE IF choice = "RED" THEN 2
    ELSE 0

\* st.radio without a key: the widget keeps the operator's selection while
\* its arguments are the same, and is created anew, at its default, when
\* index changes (or on the first run)
radio(index) ==
    IF regime = None \/ index # radio_index
    THEN regime_options[index + 1]
    ELSE regime

\* one run of the sidebar in which no button is pressed
SidebarRun(data, spy, rsp, recent_win_rate) ==
    /\ suggested_regime' = suggest_market_regime(data, spy, rsp,
                               checklist_count, recent_win_rate)
    /\ radio_index' = default_index(regime_choice)
    /\ regime' = radio(default_index(regime_choice))
    /\ UNCHANGED <<regime_choice, checklist_count>>
    /\ UNCHANGED <<dbVars, today, adds, histVars>>

\* the run in which the apply button is pressed, and the rerun it asks for
ApplyRecommendation(data, spy, rsp, recent_win_rate) ==
    LET suggested == suggest_market_regime(data, spy, rsp, checklist_count,
                                           recent_win_rate)
    IN  /\ suggested_regime' = suggested
        /\ regime_choice' = suggested
        /\ radio_index' = default_index(suggested)
        /\ regime' = radio(default_index(suggested))
        /\ UNCHANGED checklist_count
        /\ UNCHANGED <<dbVars, today, adds, histVars>>

\* the operator picks a risk level on the radio
ManualOverride(choice) ==
    /\ regime # None
    /\ regime' = choice
    /\ UNCHANGED <<regime_choice, radio_index, suggested_regime,
                   checklist_count>>
    /\ UNCHANGED <<dbVars, today, adds, histVars>>

\* the operator ticks or unticks items of the behaviour checklist
SetChecklist(n) ==
    /\ checklist_count' = n
    /\ UNCHANGED <<regime_choice, regime, radio_index, suggested_regime>>
    /\ UNCHANGED <<dbVars, today, adds, histVars>>

Sidebar ==
    \E data \in DataOutcomes, spy \in Comparisons, rsp \in Comparisons :
        \E recent_win_rate \in get_recent_performance(RecentLimit) :
            SidebarRun(data, spy, rsp, recent_win_rate)
                /\ UNCHANGED viewVars

Apply ==
    \E data \in DataOutcomes, spy \in Comparisons, rsp \in Comparisons :
        \E recent_win_rate \in get_recent_performance(RecentLimit) :
            ApplyRecommendation(data, spy, rsp, recent_win_rate)
                /\ UNCHANGED viewVars

Override ==
    \E i \in 1..3 : ManualOverride(regime_options[i]) /\ UNCHANGED viewVars

Checklist ==
    \E n \in 0..ChecklistItems : SetChecklist(n) /\ UNCHANGED viewVars

NextRegime ==
    \/ Sidebar
    \/ Apply
    \/ Override
    \/ Checklist

SpecRegime == Init /\ [][NextRegime]_vars

----------------------------------------------------------------------------
(* calculate_real_expectancy.  pandas divides with IEEE semantics: a       *)
(* quotient by zero is +inf, -inf or NaN, written here <<1, 0>>, <<-1, 0>> *)
(* and <<0, 0>>.                                                           *)

Inf == <<1, 0>>
NegInf == <<0 - 1, 0>>
NaN == <<0, 0>>

Sign(n) == IF n > 0 THEN 1 ELSE IF n < 0 THEN 0 - 1 ELSE 0

RECURSIVE IntSum(_, _)
IntSum(f, S) ==
    IF S = {} THEN 0
    ELSE LET i == CHOOSE j \in S : TRUE IN f[i] + IntSum(f, S \ {i})

RECURSIVE RSum(_, _)
RSum(f, S) ==
    IF S = {} THEN RZero
    ELSE LET i == CHOOSE j \in S : TRUE IN RAdd(f[i], RSum(f, S \ {i}))

\* sum(), which skips NaN: inf and -inf together give NaN
SumSkipNa(f, S) ==
    LET V == {i \in S : f[i] # NaN} IN
    IF (\E i \in V : f[i] = Inf) /\ (\E i \in V : f[i] = NegInf) THEN NaN
    ELSE IF \E i \in V : f[i] = Inf THEN Inf
    ELSE IF \E i \in V : f[i] = NegInf THEN NegInf
    ELSE RSum(f, V)

\* mean(), which skips NaN: NaN when nothing is left
MeanSkipNa(f, S) ==
    LET V == {i \in S : f[i] # NaN}
        total == SumSkipNa(f, S)
    IN  IF V = {} THEN NaN
        ELSE IF total[2] = 0 THEN total
        ELSE RDiv(total, R(Cardinality(V)))

\* a variant that counts every exit of a trade in full
TradeWeight_Unweighted(exit_qty, total_qty) == R(1)

\* df['weight'] = df['exit_qty'] / total_qty_per_trade, then fillna(0)
TradeWeight(exit_qty, total_qty) ==
    IF total_qty = 0
    THEN IF exit_qty = 0 THEN RZero ELSE <<Sign(exit_qty), 0>>
    ELSE Norm(exit_qty, total_qty)

\* df['contribution_r'] = df['r_multiple'] * df['weight']
ContributionR(r_multiple, weight) ==
    IF weight[2] # 0 THEN RMul(r_multiple, weight)
    ELSE <<Sign(r_multiple[1]) * weight[1], 0>>

\* total_trade_r > 0
Positive(x) == x = Inf \/ (x[2] # 0 /\ x[1] > 0)

\* <<expectancy, win_rate, total_trades>> of the rows df (a sequence with
\* the trade_id and exit_qty columns present)
calculate_real_expectancy(df) ==
    IF df = <<>> THEN <<RZero, RZero, 0>>
    ELSE
    LET rows == 1..Len(df)
        ids == {df[i].trade_id : i \in rows}
        of(id) == {i \in rows : df[i].trade_id = id}
        exit_qty == [i \in rows |-> df[i].exit_qty]
        total_qty_per_trade == [i \in rows |->
                                   IntSum(exit_qty, of(df[i].trade_id))]
        contribution_r == [i \in rows |->
            ContributionR(df[i].r_multiple,
                          TradeWeight(df[i].exit_qty, total_qty_per_trade[i]))]
        total_trade_r == [id \in ids |-> SumSkipNa(contribution_r, of(id))]
        total_trades == Cardinality(ids)
        winning_trades == {id \in ids : Positive(total_trade_r[id])}
    IN  <<MeanSkipNa(total_trade_r, ids),
          Norm(Cardinality(winning_trades) * 100, total_trades),
          total_trades>>

----------------------------------------------------------------------------
(* Claims *)

NoRecommendation == {"UNKNOWN", "ERROR"}

\* C1: a recommendation of UNKNOWN or ERROR is no recommendation: applying
\* it never turns an active YELLOW or RED regime into GREEN, and the
\* parameters then read from get_regime_params are not GREEN's.
C1_NoSilentGreen ==
    [][(/\ Apply
        /\ regime_choice' \in NoRecommendation
        /\ regime \in {"YELLOW", "RED"})
       => /\ regime' # "GREEN"
          /\ get_regime_params(regime') # get_regime_params("GREEN")]_vars

\* the step of an add_position call that merged a fill into t's row
MergeStep(t) ==
    /\ t \in DOMAIN portfolio
    /\ t \in DOMAIN portfolio'
    /\ basis'[t].call # basis[t].call

\* C2: in every step that keeps a position open, its initial_stop_loss is
\* the new fill's stop when the step is an add_position that merged into
\* it, and is unchanged in every other step.
C2_InitialStopFrozen ==
    [][\A t \in Tickers :
          (t \in DOMAIN portfolio /\ t \in DOMAIN portfolio') =>
              IF MergeStep(t)
              THEN portfolio'[t].initial_stop_loss = basis'[t].stop
              ELSE portfolio'[t].initial_stop_loss =
                      portfolio[t].initial_stop_loss]_vars

\* a merge has just replaced a frozen stop by a different one, after the
\* live stop had been moved away from it
C2_Witness ==
    \E t \in DOMAIN portfolio :
        /\ basis[t].prev # <<>>
        /\ basis[t].prev[1] # basis[t].stop
        /\ portfolio[t].initial_stop_loss = basis[t].stop
        /\ portfolio[t].stop_loss # portfolio[t].initial_stop_loss

\* C3: every row of portfolio holds a quantity greater than zero.
C3_QuantityPositive ==
    \A t \in DOMAIN portfolio : portfolio[t].quantity > 0

\* C4: an exit never records more than the position held when it ran (of
\* a position that held a positive quantity).
C4_ExitWithinHeld ==
    \A i \in 1..Len(trade_history) :
        audit[i].held > 0 => trade_history[i].exit_qty <= audit[i].held

\* ledger rows of one trade_id
RowsOf(id) == {i \in 1..Len(trade_history) : trade_history[i].trade_id = id}
TradeIds == {trade_history[i].trade_id : i \in 1..Len(trade_history)}
ExitQty == [i \in 1..Len(trade_history) |-> trade_history[i].exit_qty]

\* the quantity row i's exit took out of the position
ClosedOut == [i \in 1..Len(trade_history) |->
                 IF trade_history[i].exit_qty >= audit[i].held
                 THEN audit[i].held
                 ELSE trade_history[i].exit_qty]

\* C5: for a trade_id whose exits all found a positive quantity, the
\* exit_qty values sum to the quantity actually closed, which is at most
\* the quantity the position was opened (or last added to) with.
C5_ExitQtySumsToClosed ==
    \A id \in TradeIds :
        (\A i \in RowsOf(id) : audit[i].held > 0) =>
            /\ IntSum(ExitQty, RowsOf(id)) = IntSum(ClosedOut, RowsOf(id))
            /\ \E i \in RowsOf(id) :
                   IntSum(ExitQty, RowsOf(id)) <= audit[i].frozen_qty

\* |entry_price - initial_stop_loss| behind ledger row i
RiskUnit(i) ==
    RAbs(RSub(trade_history[i].entry_price, audit[i].initial_stop_loss))

\* C6: all ledger rows of one trade_id (exits of a positive quantity) carry
\* the same entry_price and were made against the same risk_unit.
C6_SameBasisPerTrade ==
    \A i, j \in 1..Len(trade_history) :
        (/\ trade_history[i].trade_id = trade_history[j].trade_id
         /\ audit[i].held > 0
         /\ audit[j].held > 0) =>
            /\ trade_history[i].entry_price = trade_history[j].entry_price
            /\ RiskUnit(i) = RiskUnit(j)

\* the exits of id all belong to one add_position call and together
\* closed the whole quantity that call left in the position
ClosedInFull(id) ==
    /\ \A i, j \in RowsOf(id) : audit[i].call = audit[j].call
    /\ \E i \in RowsOf(id) :
           IntSum(ExitQty, RowsOf(id)) = audit[i].frozen_qty

ExitPnl(id) ==
    LET pnl == [i \in RowsOf(id) |->
                   RMul(RSub(trade_history[i].exit_price,
                             trade_history[i].entry_price),
                        R(trade_history[i].exit_qty))]
    IN  RSum(pnl, RowsOf(id))

LedgerOf(id) == SelectSeq(trade_history, LAMBDA row : row.trade_id = id)

Between(x, a, b) == (RLe(a, x) /\ RLe(x, b)) \/ (RLe(b, x) /\ RLe(x, a))

\* C8: every accepted fill merged into an open position leaves quantity =
\* old quantity + fill quantity and an entry_price between the old
\* entry_price and the fill price.
C8_MergeBlendsPrice ==
    [][\A t \in Tickers, entry \in Prices, stop \in Prices, qty \in AddQtys :
          (add_position(t, R(entry), R(stop), qty) /\ MergeStep(t)) =>
              /\ portfolio'[t].quantity = portfolio[t].quantity + qty
              /\ Between(portfolio'[t].entry_price,
                         portfolio[t].entry_price, R(entry))]_vars

\* C9: add_position on a ticker with no row inserts a row with stop_loss =
\* initial_stop_loss = stop; on a ticker with a row it leaves quantity the
\* sum, entry_price the volume-weighted average, stop_loss and
\* initial_stop_loss the new stop, and entry_date as it was.
C9_AddPositionEffect ==
    [][\A t \in Tickers, entry \in Prices, stop \in Prices, qty \in AddQtys :
          add_position(t, R(entry), R(stop), qty) =>
              /\ t \in DOMAIN portfolio'
              /\ portfolio'[t].stop_loss = R(stop)
              /\ portfolio'[t].initial_stop_loss = R(stop)
              /\ IF t \notin DOMAIN portfolio
                 THEN /\ portfolio'[t].quantity = qty
                      /\ portfolio'[t].entry_price = R(entry)
                 ELSE /\ portfolio'[t].quantity = portfolio[t].quantity + qty
                      /\ portfolio'[t].entry_date = portfolio[t].entry_date
                      /\ RMul(portfolio'[t].entry_price,
                              R(portfolio'[t].quantity))
                            = RAdd(RMul(portfolio[t].entry_price,
                                        R(portfolio[t].quantity)),
                                   RMul(R(entry), R(qty)))]_vars

\* C10: every ledger row's r_multiple is (exit_price - entry_price) /
\* |entry_price - initial_stop_loss| with the position's initial_stop_loss
\* at the time of the exit, and 0 when the two prices are equal.
C10_RMultipleOnInitialStop ==
    \A i \in 1..Len(trade_history) :
        trade_history[i].r_multiple =
            IF RiskUnit(i) = RZero THEN RZero
            ELSE RDiv(RSub(trade_history[i].exit_price,
                           trade_history[i].entry_price),
                      RiskUnit(i))

\* the ledger holds an exit made after the stop was moved off the initial
\* stop, and an exit of a position whose entry_price was its initial stop
C10_Witness ==
    /\ \E i \in 1..Len(trade_history) :
          /\ audit[i].stop_loss # audit[i].initial_stop_loss
          /\ audit[i].stop_loss # trade_history[i].entry_price
          /\ trade_history[i].r_multiple # RZero
    /\ \E i \in 1..Len(trade_history) :
          /\ RiskUnit(i) = RZero
          /\ trade_history[i].exit_price # trade_history[i].entry_price
          /\ trade_history[i].r_multiple = RZero

\* the step wrote a ledger row, for an exit that found a positive quantity
ExitStep ==
    /\ Len(trade_history') = Len(trade_history) + 1
    /\ audit'[Len(audit')].held > 0

\* C11: every exit of a position holding a positive quantity credits
\* total_equity by (exit_price - entry_price) * the quantity it actually
\* closed, with entry_price the position's stored entry_price.
C11_EquityCreditIsPnl ==
    [][ExitStep =>
          LET row == trade_history'[Len(trade_history')]
              held == audit'[Len(audit')].held
              closed == IF row.exit_qty >= held THEN held ELSE row.exit_qty
          IN  /\ \E t \in DOMAIN portfolio :
                     row.entry_price = portfolio[t].entry_price
              /\ total_equity' =
                     RAdd(total_equity,
                          RMul(RSub(row.exit_price, row.entry_price),
                               R(closed)))]_vars

----------------------------------------------------------------------------
(* The exits statement by statement.  sqlite3.connect with the default    *)
(* isolation_level opens a transaction before the first INSERT, UPDATE or *)
(* DELETE of a connection and keeps its writes private until              *)
(* conn.commit(); a connection that ends without commit is rolled back.   *)

\* a variant in which every statement is committed as it executes
Persisted_Autocommit(stored, written, committed) == written

\* what the database file holds of a value the connection has written
Persisted(stored, written, committed) ==
    IF committed THEN written ELSE stored

\* the quantity the exit in progress writes to the ledger
ExitQtyOf(call) ==
    IF call.op = "close_position"
    THEN ClampToHeld(call.qty, portfolio[call.ticker].quantity)
    ELSE call.qty

\* the INSERT INTO trade_history of the exit
ExitLedgerRow(call) ==
    IF call.op = "close_position"
    THEN CloseLedgerRow(call.ticker, portfolio[call.ticker],
                        call.exit_price, ExitQtyOf(call))
    ELSE PartialLedgerRow(call.ticker, portfolio[call.ticker], call.qty,
                          call.exit_price,
                          portfolio[call.ticker].entry_price)

\* the UPDATE or DELETE of the portfolio row of the exit
ExitPortfolio(call) ==
    IF call.op = "close_position"
    THEN AfterClose(call.portfolio, call.ticker,
                    portfolio[call.ticker].quantity, ExitQtyOf(call))
    ELSE AfterPartial(call.portfolio, call.ticker, call.qty)

\* the database file after a statement that left the connection as next
Store(next, committed) ==
    /\ trade_history' =
           Persisted(trade_history, next.trade_history, committed)
    /\ total_equity' = Persisted(total_equity, next.total_equity, committed)
    /\ portfolio' = Persisted(portfolio, next.portfolio, committed)

\* the exit fetches the row and executes its INSERT INTO trade_history
BeginExit(op, ticker, exit_price, qty) ==
    /\ conn = NULL
    /\ HasRow(ticker)
    /\ Len(trade_history) < MaxLedger
    /\ LET call == [op |-> op, ticker |-> ticker, exit_price |-> exit_price,
                    qty |-> qty, pc |-> "credit",
                    trade_history |-> trade_history,
                    total_equity |-> total_equity,
                    portfolio |-> portfolio]
           next == [call EXCEPT !.trade_history =
                                    Append(@, ExitLedgerRow(call))]
       IN  /\ conn' = next
           /\ Store(next, FALSE)
    /\ UNCHANGED <<today, adds, histVars, current_tor, args, result,
                 schema>>
    /\ UNCHANGED regimeVars

\* "UPDATE account_config SET total_equity = total_equity + ?"
CreditEquity ==
    /\ conn # NULL
    /\ conn.pc = "credit"
    /\ LET next == [conn EXCEPT
                       !.total_equity =
                           RAdd(@, PnlDollars(conn.exit_price,
                                       portfolio[conn.ticker].entry_price,
                                       ExitQtyOf(conn))),
                       !.pc = "mutate"]
       IN  /\ conn' = next
           /\ Store(next, FALSE)
    /\ UNCHANGED <<today, adds, histVars, current_tor, args, result,
                 schema>>
    /\ UNCHANGED regimeVars

\* the quantity UPDATE, or the DELETE, of the portfolio row
MutatePosition ==
    /\ conn # NULL
    /\ conn.pc = "mutate"
    /\ LET next == [conn EXCEPT !.portfolio = ExitPortfolio(conn),
                                !.pc = "commit"]
       IN  /\ conn' = next
           /\ Store(next, FALSE)
    /\ UNCHANGED <<today, adds, histVars, current_tor, args, result,
                 schema>>
    /\ UNCHANGED regimeVars

\* conn.commit(); conn.close()
Commit ==
    /\ conn # NULL
    /\ conn.pc = "commit"
    /\ Store(conn, TRUE)
    /\ Record(conn.ticker, portfolio[conn.ticker])
    /\ conn' = NULL
    /\ UNCHANGED <<today, adds, current_tor, args, result,
                 schema>>
    /\ UNCHANGED regimeVars

\* the process dies with the exit in progress: the writes of its
\* connection are lost with it
Crash ==
    /\ conn # NULL
    /\ conn.pc # "crashed"
    /\ conn' = [conn EXCEPT !.pc = "crashed"]
    /\ UNCHANGED <<dbVars, today, adds, histVars, current_tor, args, result,
                 schema>>
    /\ UNCHANGED regimeVars

\* the script is started again on the database file
Restart ==
    /\ conn # NULL
    /\ conn.pc = "crashed"
    /\ conn' = NULL
    /\ UNCHANGED <<dbVars, today, adds, histVars, current_tor, args, result,
                 schema>>
    /\ UNCHANGED regimeVars

ExitOps == {"close_position", "process_partial_exit"}

Begin ==
    \E op \in ExitOps, ticker \in Tickers, exit_price \in Prices,
       qty \in ExitQtys :
        BeginExit(op, ticker, R(exit_price), qty)

\* the other operations run between exits, never inside one
AddBetweenExits == conn = NULL /\ AddPosition
StopBetweenExits == conn = NULL /\ UpdateStopLoss

NextCrash ==
    \/ AddBetweenExits
    \/ StopBetweenExits
    \/ Begin
    \/ CreditEquity
    \/ MutatePosition
    \/ Commit
    \/ Crash
    \/ Restart

SpecCrash == Init /\ [][NextCrash]_vars

\* the step is one complete call of the exit in progress
WholeExit ==
    /\ conn # NULL
    /\ \/ /\ conn.op = "close_position"
          /\ close_position(conn.ticker, conn.exit_price, conn.qty)
       \/ /\ conn.op = "process_partial_exit"
          /\ process_partial_exit(conn.ticker, conn.qty, conn.exit_price,
                                  portfolio[conn.ticker].entry_price)

\* the process died after the INSERT and before the commit
CrashBetweenEffects ==
    /\ conn # NULL
    /\ conn.pc \in {"credit", "mutate"}
    /\ conn'.pc = "crashed"

\* C12 as written: a crash between the effects of an exit leaves the
\* ledger row stored without the equity credit or the quantity decrement.
C12_AsWritten ==
    [][CrashBetweenEffects =>
          /\ Len(trade_history') = Len(conn.trade_history)
          /\ \/ total_equity' = total_equity
             \/ portfolio' = portfolio]_vars

\* C12: the three effects of an exit are stored together or not at all:
\* every step of an exit, a crash included, leaves the stored ledger,
\* equity and positions unchanged or changes them as one complete
\* close_position or process_partial_exit call does.
C12_ExitIsAtomic ==
    [][(conn # NULL \/ conn' # NULL) =>
          (UNCHANGED dbVars \/ WholeExit)]_vars

\* the process died holding a ledger row and an equity credit that the
\* database file does not have
C12_Witness ==
    /\ conn # NULL
    /\ conn.pc = "crashed"
    /\ Len(conn.trade_history) = Len(trade_history) + 1
    /\ conn.total_equity # total_equity

----------------------------------------------------------------------------
(* Open risk *)

BASE_1R_PCT == <<1, 100>>
MAX_POS_SIZE_PCT == <<1, 5>>

\* current_1r_unit = total_equity * (BASE_1R_PCT * r_multiplier)
current_1r_unit(equity, r_multiplier) ==
    RMul(equity, RMul(BASE_1R_PCT, r_multiplier))

calculate_dynamic_or(entry_price, stop_loss, quantity, unit) ==
    IF RLe(entry_price, stop_loss) THEN RZero
    ELSE LET or_amount == RMul(RSub(entry_price, stop_loss), R(quantity))
         IN  IF RLt(RZero, unit) THEN RDiv(or_amount, unit) ELSE RZero

\* the 1R units of the three regimes at the stored equity
UnitsNow ==
    {current_1r_unit(total_equity, get_regime_params(regime_options[i]).r_multiplier) :
        i \in 1..3}

\* C13: for every stored position and every regime's positive 1R unit,
\* calculate_dynamic_or is 0 when stop_loss >= entry_price and
\* (entry_price - stop_loss) * quantity / unit otherwise, does not rise
\* when the stop is raised, and is never negative.
C13_DynamicOpenRisk ==
    \A t \in DOMAIN portfolio : \A unit \in UnitsNow :
        LET row == portfolio[t]
            OpenRisk(stop) == calculate_dynamic_or(row.entry_price, stop,
                                                   row.quantity, unit)
        IN  RLt(RZero, unit) =>
              /\ RLe(row.entry_price, row.stop_loss) =>
                     OpenRisk(row.stop_loss) = RZero
              /\ RLt(row.stop_loss, row.entry_price) =>
                     OpenRisk(row.stop_loss) =
                         RDiv(RMul(RSub(row.entry_price, row.stop_loss),
                                   R(row.quantity)), unit)
              /\ \A s1, s2 \in Prices :
                     s1 <= s2 => RLe(OpenRisk(R(s2)), OpenRisk(R(s1)))
              /\ RLe(RZero, OpenRisk(row.stop_loss))

\* calculate_tor: the sum of calculate_dynamic_or over the rows of
\* portfolio_df, 0.0 for an empty frame
calculate_tor(portfolio_df, unit) ==
    IF DOMAIN portfolio_df = {} THEN RZero
    ELSE RSum([t \in DOMAIN portfolio_df |->
                  calculate_dynamic_or(portfolio_df[t].entry_price,
                                       portfolio_df[t].stop_loss,
                                       portfolio_df[t].quantity, unit)],
              DOMAIN portfolio_df)

----------------------------------------------------------------------------
(* The equity account *)

\* "UPDATE account_config SET total_equity = ?"
update_total_equity(new_equity) ==
    /\ total_equity' = new_equity
    /\ UNCHANGED <<portfolio, trade_history, today, adds, histVars>>
    /\ UNCHANGED regimeVars

\* values typed into the forced-equity input
ForcedEquities == {0, 100}

----------------------------------------------------------------------------
(* The dashboard: every handler ends with st.rerun(), and the script then *)
(* reads equity, regime and portfolio again and computes the TOR.         *)

\* a variant that keeps the TOR of the previous run
ScriptRun_Cached == current_tor' = current_tor

\* the script's risk engine section after the handler's writes
ScriptRun ==
    current_tor' =
        calculate_tor(portfolio',
            current_1r_unit(total_equity',
                            get_regime_params(regime').r_multiplier))

Rerun == ScriptRun /\ UNCHANGED <<conn, args, result, schema>>

\* the first run of a session, on a day when both proxies close above
\* their averages
FirstRun ==
    /\ regime = None
    /\ \E recent_win_rate \in get_recent_performance(RecentLimit) :
          SidebarRun("ok", "above", "above", recent_win_rate)
    /\ Rerun

RegimeRadio ==
    /\ \E i \in 1..3 : ManualOverride(regime_options[i])
    /\ Rerun

ForceEquity ==
    /\ regime # None
    /\ \E new_equity \in ForcedEquities : update_total_equity(R(new_equity))
    /\ Rerun

\* a variant of the add form that refuses an entry while the TOR is over
\* the regime's limit
SubmitAdd_Gated ==
    /\ regime # None
    /\ RLe(current_tor, get_regime_params(regime).tor_limit)
    /\ \E ticker \in Tickers, entry \in Prices, stop \in Prices,
          qty \in AddQtys :
          add_position(ticker, R(entry), R(stop), qty)

\* the add form is submitted
SubmitAdd ==
    /\ regime # None
    /\ \E ticker \in Tickers, entry \in Prices, stop \in Prices,
          qty \in AddQtys :
          add_position(ticker, R(entry), R(stop), qty)

AddForm == SubmitAdd /\ Rerun

MoveStop ==
    /\ regime # None
    /\ \E ticker \in DOMAIN portfolio, new_stop_price \in Prices :
          update_stop_loss(ticker, R(new_stop_price))
    /\ Rerun

CloseButton ==
    /\ regime # None
    /\ \E ticker \in DOMAIN portfolio, exit_price \in Prices,
          qty_to_close \in ExitQtys :
          close_position(ticker, R(exit_price), qty_to_close)
    /\ Rerun

DeleteButton ==
    /\ regime # None
    /\ \E ticker \in DOMAIN portfolio : delete_position(ticker)
    /\ Rerun

NextDashboard ==
    \/ FirstRun
    \/ RegimeRadio
    \/ ForceEquity
    \/ AddForm
    \/ MoveStop
    \/ CloseButton
    \/ DeleteButton

SpecDashboard == Init /\ [][NextDashboard]_vars

\* the TOR of the stored positions at the stored equity and active regime
TorNow ==
    calculate_tor(portfolio,
        current_1r_unit(total_equity, get_regime_params(regime).r_multiplier))

----------------------------------------------------------------------------
(* suggest_market_regime as a function of its inputs *)

\* recent win rates, in percent
WinRates == {0, 10, 20, 40, 100}

\* a database and a session in which nothing has happened yet
Untouched ==
    /\ portfolio = <<>>
    /\ trade_history = <<>>
    /\ total_equity = R(SeedEquity)
    /\ today = 1
    /\ adds = 0
    /\ basis = <<>>
    /\ audit = <<>>
    /\ regime_choice = None
    /\ regime = None
    /\ radio_index = 0
    /\ suggested_regime = None
    /\ checklist_count = 0
    /\ conn = NULL
    /\ current_tor = RZero
    /\ schema = InitialisedSchema

InitSuggest ==
    /\ Untouched
    /\ args \in [spy : Comparisons, rsp : Comparisons,
                 checklist : 0..ChecklistItems, win_rate : WinRates]
    /\ result = NULL

\* one call with trend data available
Suggest ==
    /\ result = NULL
    /\ result' = <<suggest_market_regime("ok", args.spy, args.rsp,
                                         args.checklist, R(args.win_rate))>>
    /\ UNCHANGED <<dbVars, today, adds, histVars, conn, current_tor, args,
                 schema>>
    /\ UNCHANGED regimeVars

NextSuggest == Suggest

SpecSuggest == InitSuggest /\ [][NextSuggest]_vars

\* C15: with trend data, the suggested regime is RED when the win rate is
\* below 20; otherwise it is the base regime (GREEN when both proxies are
\* above their averages, RED when both are below, YELLOW otherwise)
\* stepped down one level, and not past RED, when checklist_count >= 3.
C15_RegimeTable ==
    result # <<>> =>
        LET base == IF args.spy = "above" /\ args.rsp = "above" THEN 1
                    ELSE IF args.spy = "below" /\ args.rsp = "below" THEN 3
                    ELSE 2
            down == IF args.checklist >= 3 THEN 1 ELSE 0
            level == IF args.win_rate < 20 THEN 3
                     ELSE IF base + down > 3 THEN 3 ELSE base + down
        IN  result[1] = regime_options[level]

\* a call at the edge of both thresholds: win rate 20, three checklist
\* items and a GREEN base give YELLOW
C15_Witness ==
    /\ result # <<>>
    /\ args.win_rate = 20
    /\ args.checklist = 3
    /\ args.spy = "above"
    /\ args.rsp = "above"
    /\ result[1] = "YELLOW"

\* the exit date of the latest row of a logical trade
LastExit(id) ==
    CHOOSE d \in {trade_history[i].exit_date : i \in RowsOf(id)} :
        \A i \in RowsOf(id) : trade_history[i].exit_date <= d

\* the choices of the limit most recently exited logical trades
RecentTrades(limit) ==
    {S \in SUBSET TradeIds :
        /\ Cardinality(S) = limit
        /\ \A a \in S : \A b \in TradeIds \ S : LastExit(a) >= LastExit(b)}

\* the win rate over logical trades: 100 with fewer than limit trades
WinRateByTrade(limit) ==
    IF Cardinality(TradeIds) < limit
    THEN {R(100)}
    ELSE {Norm(100 * Cardinality({id \in S :
                       Positive(calculate_real_expectancy(LedgerOf(id))[1])}),
               limit) :
          S \in RecentTrades(limit)}

\* C16: on a ledger of exits that each closed a positive quantity within
\* the quantity held, get_recent_performance(K) is 100 when fewer than K
\* logical trades (trade_ids) have exits, and otherwise the percentage of
\* the K most recently exited logical trades whose total R is positive.
C16_WinRateCountsTrades ==
    (\A i \in 1..Len(trade_history) :
        audit[i].held > 0 /\ trade_history[i].exit_qty <= audit[i].held) =>
    \A limit \in 1..MaxLedger :
        get_recent_performance(limit) = WinRateByTrade(limit)

----------------------------------------------------------------------------
(* The position sizer of the Hybrid Risk Engine section *)

\* int(x) of a float: truncation toward zero
int(x) == IF x[1] >= 0 THEN x[1] \div x[2] ELSE 0 - ((0 - x[1]) \div x[2])

\* min(a, b)
Min(a, b) == IF a <= b THEN a ELSE b

\* a variant that sizes on the risk unit alone
FinalShares_IgnoreCap(theoretical_shares, max_cap_shares) == theoretical_shares

\* final_shares = min(theoretical_shares, max_cap_shares)
FinalShares(theoretical_shares, max_cap_shares) ==
    Min(theoretical_shares, max_cap_shares)

\* a variant that sizes whatever the two prices are
ValidInput_Always(entry_p, stop_p) == TRUE

\* "if entry_p > stop_p and entry_p > 0"
ValidInput(entry_p, stop_p) == RLt(stop_p, entry_p) /\ RLt(RZero, entry_p)

\* what one run of the section shows for the two price inputs: the sizing,
\* the error of the elif branch, or the exception of a float division by
\* a total_equity of 0
Sizer(equity, active_regime, entry_p, stop_p, tor) ==
    LET params == get_regime_params(active_regime)
        active_1r_unit == current_1r_unit(equity, params.r_multiplier)
        stop_dist == RSub(entry_p, stop_p)
    IN  IF ValidInput(entry_p, stop_p)
        THEN IF equity = RZero \/ stop_dist = RZero
             THEN [outcome |-> "ZeroDivisionError"]
             ELSE LET theoretical_shares ==
                          int(RDiv(active_1r_unit, stop_dist))
                      max_cap_dollars == RMul(equity, MAX_POS_SIZE_PCT)
                      max_cap_shares == int(RDiv(max_cap_dollars, entry_p))
                      final_shares ==
                          FinalShares(theoretical_shares, max_cap_shares)
                      final_or_r == RDiv(RMul(R(final_shares), stop_dist),
                                         active_1r_unit)
                      remaining_tor == RSub(params.tor_limit, tor)
                  IN  [outcome |-> "sized",
                       active_1r_unit |-> active_1r_unit,
                       theoretical_shares |-> theoretical_shares,
                       max_cap_shares |-> max_cap_shares,
                       final_shares |-> final_shares,
                       final_mag |-> RMul(R(final_shares), entry_p),
                       final_or_r |-> final_or_r,
                       cap_applied |-> theoretical_shares > max_cap_shares,
                       tor_exceeded |-> RLt(remaining_tor, final_or_r)]
        ELSE [outcome |-> "InvalidInput"]

\* equities, prices and TOR values entered for sizing
SizerEquities == {0 - 150, 0, 100, 10000}
SizerPrices == {1, 2, 95, 99, 100}
SizerTors == {0, 1, 5}

InitSizer ==
    /\ portfolio = <<>>
    /\ trade_history = <<>>
    /\ total_equity \in {R(e) : e \in SizerEquities}
    /\ today = 1
    /\ adds = 0
    /\ basis = <<>>
    /\ audit = <<>>
    /\ regime_choice = None
    /\ regime \in {"GREEN", "YELLOW", "RED"}
    /\ radio_index = 0
    /\ suggested_regime = None
    /\ checklist_count = 0
    /\ conn = NULL
    /\ current_tor \in {R(t) : t \in SizerTors}
    /\ args \in [entry_p : SizerPrices, stop_p : SizerPrices]
    /\ result = <<>>
    /\ schema = InitialisedSchema

\* one run of the sizer section with the two prices entered
Size ==
    /\ result = <<>>
    /\ result' = <<Sizer(total_equity, regime, R(args.entry_p),
                         R(args.stop_p), current_tor)>>
    /\ UNCHANGED <<dbVars, today, adds, histVars, conn, current_tor, args,
                 schema>>
    /\ UNCHANGED regimeVars

NextSizer == Size

SpecSizer == InitSizer /\ [][NextSizer]_vars

\* floor of a rational
Floor(x) == x[1] \div x[2]

\* r_multiplier of the regimes as the claim lists them
ClaimedMultiplier(r) ==
    IF r = "GREEN" THEN R(1) ELSE IF r = "YELLOW" THEN <<1, 2>> ELSE <<1, 4>>

\* C17: for entry > stop the sizer yields active_1R_unit = equity * 0.01 *
\* r_multiplier, theoretical_shares = floor(unit / (entry - stop)),
\* cap_shares = floor(equity * 0.20 / entry), final_shares the smaller of
\* the two, occupied_R = final_shares * (entry - stop) / unit, and reports
\* the cap exactly when theoretical_shares > cap_shares.
C17_SizerFormulas ==
    (result # <<>> /\ args.entry_p > args.stop_p) =>
        LET unit == RMul(total_equity,
                         RMul(<<1, 100>>, ClaimedMultiplier(regime)))
            dist == R(args.entry_p - args.stop_p)
            theoretical == Floor(RDiv(unit, dist))
            cap == Floor(RDiv(RMul(total_equity, <<1, 5>>),
                              R(args.entry_p)))
            final == IF theoretical <= cap THEN theoretical ELSE cap
        IN  /\ result[1].outcome = "sized"
            /\ result[1].active_1r_unit = unit
            /\ result[1].theoretical_shares = theoretical
            /\ result[1].max_cap_shares = cap
            /\ result[1].final_shares = final
            /\ RMul(result[1].final_or_r, unit) = RMul(R(final), dist)
            /\ result[1].cap_applied = (theoretical > cap)

\* C18: when entry_price <= stop_loss the sizer answers InvalidInput and
\* nothing else (no share count, no dollar size, no TOR comparison), and
\* the run writes nothing to the positions, the ledger or the equity.
C18_InvalidInputHasNoEffect ==
    [][(Size /\ args.entry_p <= args.stop_p) =>
          /\ result' = <<[outcome |-> "InvalidInput"]>>
          /\ UNCHANGED dbVars]_vars

\* the sizer has rejected a stop above the entry
C18_Witness ==
    /\ result # <<>>
    /\ args.entry_p < args.stop_p
    /\ result[1].outcome = "InvalidInput"

----------------------------------------------------------------------------
(* C19: the TOR budget warning *)

\* the sizer of this run raises the TOR warning for the two prices
Flagged(entry, stop) ==
    LET s == Sizer(total_equity, regime, R(entry), R(stop), current_tor)
    IN  s.outcome = "sized" /\ s.tor_exceeded

\* the add form can be submitted, and stores a position of ticker
Accepted(ticker) ==
    ENABLED (/\ SubmitAdd
             /\ ticker \in DOMAIN portfolio'
             /\ portfolio' # portfolio
             /\ portfolio'[ticker].quantity > 0)

\* the dashboard while no position is exited: the equity changes only by
\* the forced update
NextAdvisory ==
    \/ FirstRun
    \/ RegimeRadio
    \/ ForceEquity
    \/ AddForm
    \/ MoveStop
    \/ DeleteButton

SpecAdvisory == Init /\ [][NextAdvisory]_vars

\* the TOR of this run is above the active regime's limit
OverLimit == RLt(get_regime_params(regime).tor_limit, current_tor)

\* C19: the sizer raises its TOR warning exactly when the sized entry's
\* occupied R exceeds tor_limit - current_TOR, and the warning blocks
\* nothing: whatever the warning and however far the TOR is above the
\* regime's limit, the add form stores a position of positive quantity
\* (as a new row, or merged into a row of positive quantity).
C19_SizingIsAdvisory ==
    regime # None =>
        /\ \A entry \in Prices, stop \in Prices :
              LET s == Sizer(total_equity, regime, R(entry), R(stop),
                             current_tor)
              IN  s.outcome = "sized" =>
                      (Flagged(entry, stop) <=>
                          RLt(RSub(get_regime_params(regime).tor_limit,
                                   current_tor),
                              s.final_or_r))
        /\ adds < MaxAdds =>
              \A ticker \in Tickers :
                  (HasRow(ticker) => portfolio[ticker].quantity > 0) =>
                      Accepted(ticker)

\* the TOR is above the limit of the active regime, the sizer raises the
\* warning, and the add form still stores a position
C19_Witness ==
    /\ regime # None
    /\ portfolio # <<>>
    /\ OverLimit
    /\ Flagged(2, 1)
    /\ \E ticker \in DOMAIN portfolio :
          /\ portfolio[ticker].quantity > 0
          /\ adds < MaxAdds
          /\ Accepted(ticker)

----------------------------------------------------------------------------
(* C20: the trade ledger under initialisation, the equity operations and  *)
(* the scorecard's correction workflow.  A nullable column is a cell: <<>> *)
(* for NULL and <<v>> for the value v.                                     *)

\* a ledger row as stored, trade_id and exit_qty as cells
StoredRow(row) ==
    [row EXCEPT !.trade_id = <<row.trade_id>>, !.exit_qty = <<row.exit_qty>>]

\* a stored row whose trade_id and exit_qty are set
LoadedRow(stored) ==
    [stored EXCEPT !.trade_id = stored.trade_id[1],
                   !.exit_qty = stored.exit_qty[1]]

\* a variant of the migration that resets exit_qty on every row
migrate_trade_data_EveryRow(rows) ==
    [i \in DOMAIN rows |->
        IF rows[i].trade_id = NULL
        THEN [rows[i] EXCEPT
                 !.trade_id = <<TradeId(rows[i].ticker, rows[i].entry_date)>>,
                 !.exit_qty = <<1>>]
        ELSE [rows[i] EXCEPT !.exit_qty = <<1>>]]

\* rows without a trade_id get ticker_entry_date (the "(P)" suffix removed)
\* and exit_qty 1, then rows without an exit_qty get 1
migrate_trade_data(rows) ==
    [i \in DOMAIN rows |->
        IF rows[i].trade_id = NULL
        THEN [rows[i] EXCEPT
                 !.trade_id = <<TradeId(rows[i].ticker, rows[i].entry_date)>>,
                 !.exit_qty = <<1>>]
        ELSE IF rows[i].exit_qty = NULL
             THEN [rows[i] EXCEPT !.exit_qty = <<1>>]
             ELSE rows[i]]

\* the ledger after init_db: CREATE TABLE IF NOT EXISTS and ALTER TABLE
\* leave the rows alone, migrate_trade_data runs over them
init_db(stored) ==
    LET migrated == migrate_trade_data(stored)
    IN  [i \in DOMAIN migrated |-> LoadedRow(migrated[i])]

\* a script run with no handler (a page load, or any widget that writes
\* nothing)
InitDbRun ==
    /\ trade_history' =
           init_db([i \in DOMAIN trade_history |->
                       StoredRow(trade_history[i])])
    /\ UNCHANGED <<portfolio, total_equity, today, adds, histVars>>
    /\ UNCHANGED regimeVars
    /\ UNCHANGED viewVars

\* "UPDATE account_config SET total_equity = total_equity + ?"
adjust_equity_by_amount(amount) ==
    /\ total_equity' = RAdd(total_equity, amount)
    /\ UNCHANGED <<portfolio, trade_history, today, adds, histVars>>
    /\ UNCHANGED regimeVars

\* the deposit entered, which is also how far deposits may take the equity
\* from the seed
MaxAdjust == 50
AdjustAmounts == {MaxAdjust}

AdjustEquity ==
    \E adj_amount \in AdjustAmounts :
        /\ RLe(RAbs(RSub(RAdd(total_equity, R(adj_amount)), R(SeedEquity))),
               R(MaxAdjust))
        /\ adjust_equity_by_amount(R(adj_amount))
        /\ UNCHANGED viewVars

\* the equity entered for a forced update while the ledger is corrected
ManualEquities == {100}

UpdateEquity ==
    \E manual_equity \in ManualEquities :
        update_total_equity(R(manual_equity)) /\ UNCHANGED viewVars

\* what the editor's R-Multiple and Exit Qty cells are changed to
EditedR == {R(0)}
EditedQty == {<<>>, <<MaxExitQty>>}

\* "UPDATE trade_history SET ..., r_multiple = ?, exit_qty = ? WHERE id = ?"
\* with the editor's row, whose cells id and trade_id are disabled
SavedRow(row, r_multiple, exit_qty) ==
    [StoredRow(row) EXCEPT !.r_multiple = r_multiple, !.exit_qty = exit_qty]

\* the save button with one row edited: the UPDATE of every row with the
\* editor's values, then st.rerun(), whose run starts with init_db
SaveChanges ==
    \E id \in DOMAIN trade_history, r_multiple \in EditedR,
       exit_qty \in EditedQty :
        /\ trade_history' =
               init_db([i \in DOMAIN trade_history |->
                           IF i = id
                           THEN SavedRow(trade_history[i], r_multiple,
                                         exit_qty)
                           ELSE StoredRow(trade_history[i])])
        /\ UNCHANGED <<portfolio, total_equity, today, adds, histVars>>
        /\ UNCHANGED regimeVars
        /\ UNCHANGED viewVars

\* the rows of a table that are not selected, in order
RECURSIVE Unselected(_, _)
Unselected(table, trade_ids) ==
    IF table = <<>> THEN <<>>
    ELSE LET rest == Unselected(SubSeq(table, 1, Len(table) - 1), trade_ids)
         IN  IF Len(table) \in trade_ids THEN rest
             ELSE Append(rest, table[Len(table)])

\* "DELETE FROM trade_history WHERE id IN (...)"
delete_selected_trades(trade_ids) ==
    /\ trade_ids # {}
    /\ trade_history' = Unselected(trade_history, trade_ids)
    /\ audit' = Unselected(audit, trade_ids)
    /\ UNCHANGED <<portfolio, total_equity, today, adds, basis>>
    /\ UNCHANGED regimeVars

DeleteSelected ==
    \E selected_ids \in SUBSET DOMAIN trade_history :
        delete_selected_trades(selected_ids) /\ UNCHANGED viewVars

\* "DELETE FROM trade_history"
ResetAll ==
    /\ trade_history # <<>>
    /\ trade_history' = <<>>
    /\ audit' = <<>>
    /\ UNCHANGED <<portfolio, total_equity, today, adds, basis>>
    /\ UNCHANGED regimeVars
    /\ UNCHANGED viewVars

\* the add form as filled in while the ledger is under correction: one
\* entry price, one stop, whole lots
LedgerEntry == 2
LedgerStop == 1
LedgerLots == {MaxQty}

SubmitLot ==
    \E ticker \in Tickers, qty \in LedgerLots :
        add_position(ticker, R(LedgerEntry), R(LedgerStop), qty)
            /\ UNCHANGED viewVars

NextLedger ==
    \/ SubmitLot
    \/ ClosePosition
    \/ ProcessPartialExit
    \/ UpdateStopLoss
    \/ DeletePosition
    \/ InitDbRun
    \/ AdjustEquity
    \/ UpdateEquity
    \/ SaveChanges
    \/ DeleteSelected
    \/ ResetAll

SpecLedger == Init /\ [][NextLedger]_vars

\* an operation of the engine: everything but the correction workflow
EngineStep ==
    \/ SubmitLot
    \/ ClosePosition
    \/ ProcessPartialExit
    \/ UpdateStopLoss
    \/ DeletePosition
    \/ InitDbRun
    \/ AdjustEquity
    \/ UpdateEquity

\* every row of the ledger is still there, in its place and as it was
KeepsRows ==
    /\ Len(trade_history') >= Len(trade_history)
    /\ \A i \in DOMAIN trade_history : trade_history'[i] = trade_history[i]

----------------------------------------------------------------------------
(* C21: init_db on a new, an older and an initialised database file *)

\* a database file with no table
NoTables == [portfolio |-> {}, trade_history |-> {}, account_config |-> {}]

\* the tables as a version without the added columns created them
OlderSchema ==
    [CreatedColumns EXCEPT
        !.portfolio = @ \ {"breakdown_low", "initial_stop_loss"}]

\* "CREATE TABLE IF NOT EXISTS"
CreateTableIfNotExists(tables, table) ==
    IF tables[table] = {}
    THEN [tables EXCEPT ![table] = CreatedColumns[table]]
    ELSE tables

\* "except sqlite3.OperationalError: pass": the function goes on
ExceptOperationalError(outcome) == outcome

\* "ALTER TABLE ... ADD COLUMN" inside its try block; sqlite3 raises
\* OperationalError (duplicate column name) when the column exists
AlterTableAddColumn(run, table, column) ==
    IF run.outcome # "ok" THEN run
    ELSE IF column \in run.schema[table]
         THEN [run EXCEPT !.outcome = ExceptOperationalError(@)]
         ELSE [run EXCEPT !.schema[table] = @ \cup {column}]

RECURSIVE AddColumns(_, _)
AddColumns(run, n) ==
    IF n = 0 THEN run
    ELSE AlterTableAddColumn(AddColumns(run, n - 1),
                             AddedColumns[n][1], AddedColumns[n][2])

update_db_schema(tables) ==
    AddColumns([schema |-> tables, outcome |-> "ok"], Len(AddedColumns))

\* a variant that writes the seed over the stored equity
init_account_db_Reseed(equity) == R(SeedEquity)

\* the account row is inserted with the seed when the table has no row
init_account_db(equity) ==
    IF equity = NULL THEN R(SeedEquity) ELSE equity

\* init_db() at the top of the script: the two tables, the added columns,
\* the migration of the ledger, the account table and its row
RunInitDb ==
    LET created == CreateTableIfNotExists(
                       CreateTableIfNotExists(schema, "portfolio"),
                       "trade_history")
        altered == update_db_schema(created)
    IN  /\ result' = <<altered.outcome>>
        /\ IF altered.outcome = "ok"
           THEN /\ schema' = CreateTableIfNotExists(altered.schema,
                                                    "account_config")
                /\ trade_history' =
                       init_db([i \in DOMAIN trade_history |->
                                   StoredRow(trade_history[i])])
                /\ total_equity' = init_account_db(total_equity)
           ELSE /\ schema' = altered.schema
                /\ UNCHANGED <<trade_history, total_equity>>
        /\ UNCHANGED <<portfolio, today, adds, histVars>>
        /\ UNCHANGED regimeVars
        /\ UNCHANGED <<conn, current_tor, args>>

\* a database file before the script first runs on it: new, or left by an
\* older version with or without an account row
InitFile ==
    /\ portfolio = <<>>
    /\ trade_history = <<>>
    /\ \/ schema = NoTables /\ total_equity = NULL
       \/ schema = OlderSchema /\ total_equity \in {NULL, R(100)}
    /\ today = 1
    /\ adds = 0
    /\ basis = <<>>
    /\ audit = <<>>
    /\ regime_choice = None
    /\ regime = None
    /\ radio_index = 0
    /\ suggested_regime = None
    /\ checklist_count = 0
    /\ conn = NULL
    /\ current_tor = RZero
    /\ args = NULL
    /\ result = <<>>

\* a handler runs in a script run that got past init_db()
Initialised == result = <<"ok">>

NextInit ==
    \/ RunInitDb
    \/ Initialised /\ SubmitLot
    \/ Initialised /\ ClosePosition
    \/ Initialised /\ ProcessPartialExit
    \/ Initialised /\ UpdateStopLoss
    \/ Initialised /\ DeletePosition
    \/ Initialised /\ AdjustEquity
    \/ Initialised /\ UpdateEquity

SpecInit == InitFile /\ [][NextInit]_vars

----------------------------------------------------------------------------
(* C22: the trade_id of the exits of one position *)

\* the step wrote a row to the ledger
LedgerAppend == Len(trade_history') = Len(trade_history) + 1

\* C22: a row written by an exit carries the trade_id made of the ticker
\* and the entry_date of the position exited, and no step that keeps a
\* position open (a partial exit, a merge, a stop move) changes its
\* entry_date: all exits of one position lifetime carry one trade_id.
C22_TradeIdOfLifetime ==
    [][/\ \A t \in Tickers :
              (t \in DOMAIN portfolio /\ t \in DOMAIN portfolio') =>
                  portfolio'[t].entry_date = portfolio[t].entry_date
       /\ LedgerAppend =>
              LET row == trade_history'[Len(trade_history')]
              IN  /\ row.ticker \in DOMAIN portfolio
                  /\ row.trade_id =
                         TradeId(row.ticker, portfolio[row.ticker].entry_date)
                  /\ row.entry_date = portfolio[row.ticker].entry_date]_vars

\* two exits of one position with a merge between them, the second on a
\* later day than the entry, carry the same trade_id
C22_Witness ==
    /\ Len(trade_history) = 2
    /\ trade_history[1].trade_id = trade_history[2].trade_id
    /\ audit[1].call # audit[2].call
    /\ trade_history[2].exit_date > trade_history[2].entry_date
    /\ trade_history[1].partial

----------------------------------------------------------------------------
(* C23: calculate_real_expectancy over the ledger *)

\* the total exit_qty of the rows of id
GroupQty(id) == IntSum(ExitQty, RowsOf(id))

\* sum of r_multiple_i * exit_qty_i over the rows of id, over GroupQty(id)
WeightedR(id) ==
    RDiv(RSum([i \in RowsOf(id) |->
                  RMul(trade_history[i].r_multiple,
                       R(trade_history[i].exit_qty))],
              RowsOf(id)),
         R(GroupQty(id)))

\* C23: on an empty ledger the result is (0, 0, 0); otherwise total_trades
\* is the number of distinct trade_ids, every group has a quantity-weighted
\* R (its total exit_qty is not 0), win_rate is the percentage of groups
\* whose weighted R is > 0, and expectancy is the mean of the weighted R
\* over the groups, each group counted once.
C23_ExpectancyByTrade ==
    LET res == calculate_real_expectancy(trade_history)
        n == Cardinality(TradeIds)
    IN  IF trade_history = <<>>
        THEN res = <<RZero, RZero, 0>>
        ELSE /\ res[3] = n
             /\ \A id \in TradeIds : GroupQty(id) # 0
             /\ res[2] =
                    Norm(100 * Cardinality({id \in TradeIds :
                                               RLt(RZero, WeightedR(id))}),
                         n)
             /\ res[1] =
                    RDiv(RSum([id \in TradeIds |-> WeightedR(id)], TradeIds),
                         R(n))

----------------------------------------------------------------------------
(* C24: update_stop_loss with two tickers in the portfolio *)

\* the tickers typed into the forms
TwoTickers == {"A", "B"}
\* whole lots of one or two shares
LotQtys == 1..MaxQty

AddLot ==
    \E ticker \in TwoTickers, entry \in Prices, stop \in Prices,
       qty \in LotQtys :
        add_position(ticker, R(entry), R(stop), qty) /\ UNCHANGED viewVars

CloseLot ==
    \E ticker \in TwoTickers, exit_price \in Prices,
       qty_to_close \in ExitQtys :
        close_position(ticker, R(exit_price), qty_to_close)
            /\ UNCHANGED viewVars

\* update_stop_loss for a ticker with or without a row
MoveStopOf(ticker, new_stop_price) ==
    update_stop_loss(ticker, R(new_stop_price)) /\ UNCHANGED viewVars

MoveAnyStop ==
    \E ticker \in TwoTickers, new_stop_price \in Prices :
        MoveStopOf(ticker, new_stop_price)

NextStop ==
    \/ AddLot
    \/ CloseLot
    \/ MoveAnyStop

SpecStop == Init /\ [][NextStop]_vars

\* C24: update_stop_loss(ticker, new_stop) sets the stop_loss of ticker's
\* row and nothing else: the row's initial_stop_loss, entry_price,
\* quantity and entry_date, every other row, the ledger and total_equity
\* are as before, and with no row for ticker nothing changes at all.
C24_StopMoveFrame ==
    [][\A ticker \in TwoTickers, new_stop_price \in Prices :
          MoveStopOf(ticker, new_stop_price) =>
              /\ UNCHANGED <<trade_history, total_equity>>
              /\ DOMAIN portfolio' = DOMAIN portfolio
              /\ \A t \in DOMAIN portfolio \ {ticker} :
                     portfolio'[t] = portfolio[t]
              /\ HasRow(ticker) =>
                     /\ portfolio'[ticker].stop_loss = R(new_stop_price)
                     /\ portfolio'[ticker].initial_stop_loss =
                            portfolio[ticker].initial_stop_loss
                     /\ portfolio'[ticker].entry_price =
                            portfolio[ticker].entry_price
                     /\ portfolio'[ticker].quantity =
                            portfolio[ticker].quantity
                     /\ portfolio'[ticker].entry_date =
                            portfolio[ticker].entry_date
              /\ ~HasRow(ticker) => UNCHANGED dbVars]_vars

\* the stop of A has been moved off its initial stop while B is open with
\* its own stop and an exit is in the ledger
C24_Witness ==
    /\ DOMAIN portfolio = TwoTickers
    /\ portfolio["A"].stop_loss # portfolio["A"].initial_stop_loss
    /\ portfolio["B"].stop_loss = portfolio["B"].initial_stop_loss
    /\ portfolio["B"].stop_loss # portfolio["A"].stop_loss
    /\ trade_history # <<>>

----------------------------------------------------------------------------
(* C25: the equity account against the ledger *)

\* the amounts of the adjustment popover: a deposit and a withdrawal
Deltas == {0 - MaxAdjust, MaxAdjust}

\* the adjustment button, while the equity stays within MaxAdjust of what
\* the exits left of the seed
Adjust ==
    \E adj_amount \in Deltas :
        /\ RLe(RAbs(RSub(RAdd(total_equity, R(adj_amount)), R(SeedEquity))),
               R(MaxAdjust + MaxLedger * MaxExitQty * MaxPrice))
        /\ adjust_equity_by_amount(R(adj_amount))
        /\ UNCHANGED viewVars

NextEquity ==
    \/ AddPosition
    \/ ClosePosition
    \/ ProcessPartialExit
    \/ UpdateStopLoss
    \/ DeletePosition
    \/ Adjust

SpecEquity == Init /\ [][NextEquity]_vars

\* sum over the rows of a ledger of (exit_price - entry_price) * exit_qty
LedgerPnl(ledger) ==
    RSum([i \in DOMAIN ledger |->
             RMul(RSub(ledger[i].exit_price, ledger[i].entry_price),
                  R(ledger[i].exit_qty))],
         DOMAIN ledger)

\* C25: with no forced equity and no ledger correction, total_equity starts
\* at the seed with an empty ledger; an adjust_equity_by_amount step adds
\* its delta and writes no ledger row; every other step keeps
\* total_equity less the ledger's sum of (exit_price - entry_price) *
\* exit_qty as it was; add_position, update_stop_loss and delete_position
\* leave total_equity unchanged.
C25_EquityConservation ==
    /\ total_equity = R(SeedEquity)
    /\ trade_history = <<>>
    /\ [][/\ IF trade_history' = trade_history
             THEN \/ total_equity' = total_equity
                  \/ /\ Adjust
                     /\ \E adj_amount \in Deltas :
                            total_equity' =
                                RAdd(total_equity, R(adj_amount))
             ELSE RSub(total_equity', LedgerPnl(trade_history')) =
                      RSub(total_equity, LedgerPnl(trade_history))
          /\ \/ total_equity' = total_equity
             \/ ~(AddPosition \/ UpdateStopLoss \/ DeletePosition)]_vars

\* a deposit was made and two exits with a loss are in the ledger, one of
\* them partial
C25_Witness ==
    /\ Len(trade_history) = 2
    /\ trade_history[1].partial
    /\ RLt(LedgerPnl(trade_history), RZero)
    /\ RSub(total_equity, LedgerPnl(trade_history)) = R(SeedEquity + MaxAdjust)

----------------------------------------------------------------------------
(* C26: the quantity of a position against its exits *)

\* exit_qty of the ledger row the step wrote for ticker, 0 when it wrote
\* none
ExitedInStep(ticker) ==
    IF LedgerAppend /\ trade_history'[Len(trade_history')].ticker = ticker
    THEN trade_history'[Len(trade_history')].exit_qty
    ELSE 0

\* the stored quantity of ticker after the step, 0 once its row is gone
QuantityAfter(ticker) ==
    IF ticker \in DOMAIN portfolio' THEN portfolio'[ticker].quantity ELSE 0

\* C26: the quantity added to a position is its stored quantity plus the
\* exit_qty of its ledger rows.  Step by step, for a position holding a
\* positive quantity: every step that is not an add_position and that
\* keeps the row or writes an exit leaves the stored quantity (0 once the
\* exit deleted the row) plus the exit_qty of the row written equal to the
\* quantity stored before.
C26_QuantityConservation ==
    [][\A t \in Tickers :
          (/\ HasRow(t)
           /\ portfolio[t].quantity > 0
           /\ adds' = adds
           /\ (LedgerAppend \/ t \in DOMAIN portfolio')) =>
              portfolio[t].quantity = QuantityAfter(t) + ExitedInStep(t)]_vars

----------------------------------------------------------------------------
(* C27: the trade_ids of successive positions of one symbol *)

\* the exit behind ledger row i took all the position held, so that its
\* row was deleted: a later exit belongs to a position opened afterwards
ClosedThePosition(i) ==
    /\ audit[i].held > 0
    /\ trade_history[i].exit_qty = audit[i].held

\* C27: when an exit has closed a position in full, every exit written
\* later - which belongs to a position opened after it - carries a
\* trade_id different from that exit's.
C27_TradeIdPerLifetime ==
    \A i, j \in 1..Len(trade_history) :
        (i < j /\ ClosedThePosition(i) /\ audit[j].held > 0) =>
            trade_history[i].trade_id # trade_history[j].trade_id

----------------------------------------------------------------------------
(* C28: close_position against process_partial_exit *)

\* what close_position writes for an exit of qty from ticker's row
ByClose(ticker, exit_price, qty) ==
    LET row == portfolio[ticker]
        clamped == ClampToHeld(qty, row.quantity)
    IN  [row |-> CloseLedgerRow(ticker, row, exit_price, clamped),
         credit |-> PnlDollars(exit_price, row.entry_price, clamped),
         portfolio |-> AfterClose(portfolio, ticker, row.quantity, clamped)]

\* what process_partial_exit writes for it, called with the stored entry
\* price
ByPartial(ticker, exit_price, qty) ==
    LET row == portfolio[ticker]
    IN  [row |-> PartialLedgerRow(ticker, row, qty, exit_price,
                                  row.entry_price),
         credit |-> PnlDollars(exit_price, row.entry_price, qty),
         portfolio |-> AfterPartial(portfolio, ticker, qty)]

\* C28: for an open position, any exit price and any exit quantity of at
\* most the quantity held, close_position and process_partial_exit (given
\* the stored entry price) leave the same portfolio, credit the same
\* amount and write ledger rows with the same trade_id, entry_price,
\* exit_qty and r_multiple.
C28_ExitPathsAgree ==
    \A ticker \in DOMAIN portfolio, exit_price \in Prices, qty \in ExitQtys :
        qty <= portfolio[ticker].quantity =>
            LET c == ByClose(ticker, R(exit_price), qty)
                p == ByPartial(ticker, R(exit_price), qty)
            IN  /\ c.portfolio = p.portfolio
                /\ c.credit = p.credit
                /\ c.row.trade_id = p.row.trade_id
                /\ c.row.entry_price = p.row.entry_price
                /\ c.row.exit_qty = p.row.exit_qty
                /\ c.row.r_multiple = p.row.r_multiple

\* a position of two shares or more, entered below its frozen stop and at
\* a blended price, is open after a partial exit: both paths can take one
\* share or all, at a price that gives a non-zero R
C28_Witness ==
    /\ HasRow("A")
    /\ portfolio["A"].quantity >= 2
    /\ RLt(portfolio["A"].entry_price, portfolio["A"].initial_stop_loss)
    /\ portfolio["A"].entry_price[2] # 1
    /\ trade_history # <<>>
    /\ ByClose("A", R(2), 1).row.r_multiple # RZero

----------------------------------------------------------------------------
(* C29: an exit for a symbol that has no portfolio row *)

\* the step is a call of one of the two exit functions
ExitCall == ClosePosition \/ ProcessPartialExit

----------------------------------------------------------------------------
(* C30: the bounds of a sized position *)

\* C30: for positive equity, any regime and entry > stop > 0, the sizer's
\* final_shares is at least 0, final_shares * entry is at most 20% of the
\* equity, and final_shares * (entry - stop) is at most the active 1R unit
\* (occupied R at most 1).
C30_SizedWithinOneRAndCap ==
    (/\ result # <<>>
     /\ RLt(RZero, total_equity)
     /\ args.entry_p > args.stop_p
     /\ args.stop_p > 0) =>
        /\ result[1].outcome = "sized"
        /\ result[1].final_shares >= 0
        /\ RLe(RMul(R(result[1].final_shares), R(args.entry_p)),
               RMul(total_equity, MAX_POS_SIZE_PCT))
        /\ RLe(RMul(R(result[1].final_shares),
                    R(args.entry_p - args.stop_p)),
               result[1].active_1r_unit)
        /\ RLe(result[1].final_or_r, R(1))

\* a position has been sized on positive equity with the concentration cap
\* cutting the risk-based share count
C30_Witness ==
    /\ result # <<>>
    /\ RLt(RZero, total_equity)
    /\ args.entry_p > args.stop_p
    /\ result[1].outcome = "sized"
    /\ result[1].cap_applied
    /\ result[1].final_shares > 0
    /\ result[1].final_shares < result[1].theoretical_shares

====
